---- MODULE Spec2Model ----
(***************************************************************************)
(* A model of train_gpt2.py: the DataLoaderLite token-shard loader, the    *)
(* GPT parameter set-up (weight tying, initialisation), the learning-rate  *)
(* schedule get_lr and the data-parallel training loop.                    *)
(*                                                                         *)
(* A token of a shard file is represented by its place, the pair           *)
(* <<shard index, position>> (both 0-based, as in the code), so that what  *)
(* a batch holds says where it was read from.                              *)
(***************************************************************************)
EXTENDS Integers, Sequences, FiniteSets, TLC

\* ---------------------------------------------------------------- bounds
MaxB == 2            \* micro-batch rows B range over 1..MaxB
MaxT == 2            \* sequence length T ranges over 1..MaxT
MaxWorld == 2        \* WORLD_SIZE ranges over 1..MaxWorld
MaxShards == 2       \* a split has 1..MaxShards shard files
MaxShardLen == 9     \* a shard file holds 1..MaxShardLen tokens
MaxCalls == 4        \* next_batch calls counted per loader since its reset
MaxTotal == 4        \* total_batch_size ranges over 1..MaxTotal
MaxExamples == 2     \* the multiple-choice set holds 1..MaxExamples examples
MaxOver == 4         \* get_lr is called with it in 0..max_steps+MaxOver
MaxLayer == 3        \* config.n_layer ranges over 1..MaxLayer
max_steps == 252     \* line 334 (19702 there): the number of training steps

\* ------------------------------------------------------ program constants
\* Learning rates are counted in units of 6e-4/640, which makes the warmup
\* values max_lr*(it+1)/warmup_steps whole numbers.
max_lr == 640                        \* line 331: 6e-4
min_lr == (max_lr * 1) \div 10       \* line 332: max_lr * 0.1
warmup_steps == 128                  \* line 333
eval_every == 250                    \* lines 365, 390, 423: step % 250
val_loss_steps == 20                 \* line 371
use_compile == FALSE                 \* line 323

Min(a, b) == IF a < b THEN a ELSE b

VARIABLES
    \* the environment and the script's configuration
    ddp,               \* RANK is set (line 279)
    ddp_world_size,    \* WORLD_SIZE, 1 without DDP (lines 285, 292)
    B, T,              \* lines 305-306
    total_batch_size,  \* line 304
    files,             \* the shard files of each split: their token counts
    nexamples,         \* the number of examples iterate_examples("val") yields
    \* one process per rank: every variable below maps a rank to its value
    train_loader,      \* the DataLoaderLite objects (lines 314-315)
    val_loader,
    x, y,              \* the batch returned by the last next_batch
    calls,             \* next_batch calls on train_loader since its reset
    crashed,           \* the process died of an exception
    pc,                \* where the process is in the script
    grad_accum_steps,  \* line 308
    step, micro_step,  \* the loop variables of lines 360 and 454
    val_i, ex_i,       \* the loop variables of lines 373 and 394
    num_total, num_correct_norm,
    model,             \* mode and DDP's require_backward_grad_sync
    grad,              \* the gradient buffers: what has been done to them
    lr,                \* the optimizer's param_group['lr']
    log,               \* what the process did in its current training step
    \* get_lr called on its own
    it, lr_out,
    \* a GPT built, initialised, loaded and optimised on its own
    n_layer,           \* config.n_layer
    module,            \* the leaf modules, in the order apply() visits them
    param,             \* parameter id -> what the tensor holds
    gpt_pc,            \* how far the set-up has come
    init_i, copy_i,    \* the module apply() is at, the key from_pretrained is at
    optimizer_groups   \* the parameter ids of the optimizer's two groups

envVars == <<ddp, ddp_world_size, B, T, total_batch_size, files, nexamples>>
loaderVars == <<train_loader, val_loader, x, y, calls, crashed>>
trainVars == <<pc, grad_accum_steps, step, micro_step, val_i, ex_i, num_total,
               num_correct_norm, model, grad, lr, log>>
lrVars == <<it, lr_out>>
gptVars == <<n_layer, module, param, gpt_pc, init_i, copy_i, optimizer_groups>>
aloneVars == <<lrVars, gptVars>>
vars == <<envVars, loaderVars, trainVars, aloneVars>>

Ranks == 0 .. (ddp_world_size - 1)

\* ------------------------------------------------------- tensors, slices
\* Python's s[lo:hi] for 0 <= lo, hi: clipped at the end of s, never an error.
Slice(s, lo, hi) == SubSeq(s, lo + 1, Min(hi, Len(s)))

\* s[:-1] and s[1:]
DropLast(s) == SubSeq(s, 1, Len(s) - 1)
DropFirst(s) == SubSeq(s, 2, Len(s))

\* tensor.view(b, t): rows of t elements; an error unless numel = b*t.
ViewOk(s, b, t) == Len(s) = b * t
View(s, b, t) == [i \in 1 .. b |-> SubSeq(s, (i - 1) * t + 1, i * t)]

\* load_tokens(filename): the tokens of shard file number i of a split.
load_tokens(split, i) == [p \in 1 .. files[split][i] |-> <<i - 1, p - 1>>]

\* ---------------------------------------------------------- DataLoaderLite
reset_unranked(self) ==
    [self EXCEPT !.current_shard = 0,
                 !.tokens = load_tokens(self.split, 1),
                 !.current_pos = 0]

\* reset(): back to the first shard, at this rank's first window
reset(self) ==
    [self EXCEPT !.current_shard = 0,
                 !.tokens = load_tokens(self.split, 1),
                 !.current_pos = self.B * self.T * self.rank]

\* DataLoaderLite(B, T, process_rank, num_processes, split)
DataLoaderLite(b, t, process_rank, num_processes, split) ==
    reset([B |-> b, T |-> t, rank |-> process_rank,
           num_processes |-> num_processes, split |-> split,
           nshards |-> Len(files[split]),
           current_shard |-> 0, tokens |-> <<>>, current_pos |-> 0])

\* the slice next_batch reads
Buffer(self) ==
    Slice(self.tokens, self.current_pos, self.current_pos + self.B * self.T + 1)

\* next_batch raises in view() when the slice came out short
next_batch_ok(self) ==
    /\ ViewOk(DropLast(Buffer(self)), self.B, self.T)
    /\ ViewOk(DropFirst(Buffer(self)), self.B, self.T)

next_batch_x(self) == View(DropLast(Buffer(self)), self.B, self.T)
next_batch_y(self) == View(DropFirst(Buffer(self)), self.B, self.T)

ShardDoneAtEnd(self, pos) == pos >= Len(self.tokens)

\* line 249: no room left for another round of windows after pos
ShardDone(self, pos) ==
    pos + (self.B * self.T * self.num_processes + 1) > Len(self.tokens)

\* the loader after next_batch
next_batch_self(self) ==
    LET pos == self.current_pos + self.B * self.T * self.num_processes
        nxt == (self.current_shard + 1) % self.nshards
    IN  IF ShardDone(self, pos)
        THEN [self EXCEPT !.current_shard = nxt,
                          !.tokens = load_tokens(self.split, nxt + 1),
                          !.current_pos = self.B * self.T * self.rank]
        ELSE [self EXCEPT !.current_pos = pos]

\* a loader not yet constructed
NoLoader ==
    [B |-> 0, T |-> 0, rank |-> 0, num_processes |-> 0, split |-> "none",
     nshards |-> 0, current_shard |-> 0, tokens |-> <<>>, current_pos |-> 0]

NoBatch == <<>>

\* ------------------------------------------------------------------ get_lr
\* cos(pi * n / d) for 0 <= n <= d, as the fraction <<numerator, denominator>>
\* of Bhaskara's rational approximation (1 - 4r^2)/(1 + r^2) on r <= 1/2,
\* mirrored on r > 1/2; exact at r = 0, 1/2 and 1, within 0.002 elsewhere.
cos_pi(n, d) ==
    IF 2 * n <= d
    THEN <<d * d - 4 * n * n, d * d + n * n>>
    ELSE <<-(d * d - 4 * (d - n) * (d - n)), d * d + (d - n) * (d - n)>>

\* assert 0 <= decay_ratio <= 1, decay_ratio being n / d (d = 0: a
\* ZeroDivisionError)
decay_ratio_ok(n, d) ==
    \/ d > 0 /\ 0 <= n /\ n <= d
    \/ d < 0 /\ n <= 0 /\ d <= n

\* get_lr raises instead of returning
get_lr_raises(i) ==
    /\ ~(i < warmup_steps)
    /\ ~(i > max_steps)
    /\ ~decay_ratio_ok(i - warmup_steps, max_steps - warmup_steps)

get_lr_late(i) ==
    IF i < warmup_steps
    THEN (max_lr * i) \div warmup_steps
    ELSE IF i > max_steps
    THEN min_lr
    ELSE LET c == cos_pi(i - warmup_steps, max_steps - warmup_steps)
         IN  min_lr + ((c[2] + c[1]) * (max_lr - min_lr)) \div (2 * c[2])

\* the value get_lr returns; coeff = 0.5 * (1 + cos) = (cd + cn) / (2 * cd)
get_lr(i) ==
    IF i < warmup_steps
    THEN (max_lr * (i + 1)) \div warmup_steps
    ELSE IF i > max_steps
    THEN min_lr
    ELSE LET c == cos_pi(i - warmup_steps, max_steps - warmup_steps)
         IN  min_lr + ((c[2] + c[1]) * (max_lr - min_lr)) \div (2 * c[2])

\* what a call of get_lr on its own left behind
NotCalled == [state |-> "not called", value |-> 0]
Returned(v) == [state |-> "returned", value |-> v]
Raised == [state |-> "raised", value |-> 0]

\* --------------------------------------------------------------------- GPT
\* The leaf modules of GPT(config), in the order they are registered, which
\* is the order apply() visits them and named_parameters() lists them.
\* layer is the Block's index, -1 outside the Blocks. attrs are the extra
\* attributes set on the module object. Parameter ids: the weight of module
\* number k is 2k-1, its bias 2k; 0 is None.
Leaf(layer, name, type, attrs, has_bias) ==
    [layer |-> layer, name |-> name, type |-> type, attrs |-> attrs,
     has_bias |-> has_bias, weight |-> 0, bias |-> 0]

\* Block(config): lines 70-73, 24-27, 56-59
Block(i) ==
    << Leaf(i, "ln_1", "LayerNorm", {}, TRUE),
       Leaf(i, "attn.c_attn", "Linear", {}, TRUE),
       Leaf(i, "attn.c_proj", "Linear", {"GPT_SCALE_INIT"}, TRUE),
       Leaf(i, "ln_2", "LayerNorm", {}, TRUE),
       Leaf(i, "mlp.c_fc", "Linear", {}, TRUE),
       Leaf(i, "mlp.c_proj", "Linear", {"GPT_SCALE_INIT"}, TRUE) >>

RECURSIVE Blocks(_, _)
Blocks(i, n) == IF i >= n THEN <<>> ELSE Block(i) \o Blocks(i + 1, n)

\* lines 85-91: every module is built with parameters of its own
Modules(n) ==
    LET ms == << Leaf(-1, "transformer.wte", "Embedding", {}, FALSE),
                 Leaf(-1, "transformer.wpe", "Embedding", {}, FALSE) >>
              \o Blocks(0, n)
              \o << Leaf(-1, "transformer.ln_f", "LayerNorm", {}, TRUE),
                    Leaf(-1, "lm_head", "Linear", {}, FALSE) >>
    IN  [k \in 1 .. Len(ms) |->
            [ms[k] EXCEPT !.weight = 2 * k - 1,
                          !.bias = IF ms[k].has_bias THEN 2 * k ELSE 0]]

\* the place of a module outside the Blocks
Where(ms, name) == CHOOSE k \in 1 .. Len(ms) : ms[k].layer = -1 /\ ms[k].name = name

tie_nothing(ms) == ms

\* line 94: transformer.wte.weight = lm_head.weight
tie_weights(ms) ==
    [ms EXCEPT ![Where(ms, "transformer.wte")].weight = ms[Where(ms, "lm_head")].weight]

\* what a tensor holds: how it was last written; a normal_ of standard
\* deviation (std100 / 100) * per_sqrt ** -0.5
Default == [kind |-> "default", std100 |-> 0, per_sqrt |-> 0]
Normal(std100, per_sqrt) == [kind |-> "normal", std100 |-> std100, per_sqrt |-> per_sqrt]
Zeros == [kind |-> "zeros", std100 |-> 0, per_sqrt |-> 0]
Pretrained == [kind |-> "pretrained", std100 |-> 0, per_sqrt |-> 0]
Updated == [kind |-> "updated", std100 |-> 0, per_sqrt |-> 0]

\* lines 98-107: __init__weights(module)
init_weights(m, heap) ==
    IF m.type = "Linear"
    THEN LET per_sqrt == IF "GPT_SCaLE_INIT" \in m.attrs THEN 2 * n_layer ELSE 1
             h == [heap EXCEPT ![m.weight] = Normal(2, per_sqrt)]
         IN  IF m.bias # 0 THEN [h EXCEPT ![m.bias] = Zeros] ELSE h
    ELSE IF m.type = "Embedding"
    THEN [heap EXCEPT ![m.weight] = Normal(2, 1)]
    ELSE heap

\* state_dict(): every name, shared parameters under each of their names
StateDict(ms) ==
    LET RECURSIVE go(_)
        go(k) == IF k > Len(ms) THEN <<>>
                 ELSE <<ms[k].weight>>
                         \o (IF ms[k].bias # 0 THEN <<ms[k].bias>> ELSE <<>>)
                         \o go(k + 1)
    IN  go(1)

RECURSIVE Dedup(_, _)
Dedup(ids, seen) ==
    IF ids = <<>> THEN <<>>
    ELSE IF Head(ids) \in seen THEN Dedup(Tail(ids), seen)
    ELSE <<Head(ids)>> \o Dedup(Tail(ids), seen \cup {Head(ids)})

\* named_parameters(): a parameter shared by two modules is listed once
named_parameters(ms) == Dedup(StateDict(ms), {})

\* p.dim() of a parameter: weights of Linear and Embedding are matrices
dim(ms, id) ==
    IF \E k \in 1 .. Len(ms) :
          ms[k].weight = id /\ ms[k].type \in {"Linear", "Embedding"}
    THEN 2 ELSE 1

\* lines 175-183: the two parameter groups
optim_groups(ms) ==
    << SelectSeq(named_parameters(ms), LAMBDA id : dim(ms, id) >= 2),
       SelectSeq(named_parameters(ms), LAMBDA id : dim(ms, id) < 2) >>

ParamIds(ms) == {ms[k].weight : k \in 1 .. Len(ms)} \cup {ms[k].bias : k \in 1 .. Len(ms)}

\* lines 85-91
Construct ==
    /\ gpt_pc = "new"
    /\ module' = Modules(n_layer)
    /\ param' = [id \in ParamIds(Modules(n_layer)) \ {0} |-> Default]
    /\ gpt_pc' = "built"
    /\ UNCHANGED <<envVars, loaderVars, trainVars, lrVars, n_layer, init_i, copy_i,
                   optimizer_groups>>

\* line 94
TieWeights ==
    /\ gpt_pc = "built"
    /\ module' = tie_weights(module)
    /\ init_i' = 1
    /\ gpt_pc' = "apply"
    /\ UNCHANGED <<envVars, loaderVars, trainVars, lrVars, n_layer, param, copy_i,
                   optimizer_groups>>

\* line 96: apply() at its next module
InitModule ==
    /\ gpt_pc = "apply"
    /\ param' = init_weights(module[init_i], param)
    /\ init_i' = init_i + 1
    /\ gpt_pc' = IF init_i < Len(module) THEN "apply" ELSE "ready"
    /\ UNCHANGED <<envVars, loaderVars, trainVars, lrVars, n_layer, module, copy_i,
                   optimizer_groups>>

\* lines 162-170 of from_pretrained, which has just built the model: the
\* next key of the checkpoint is copied into the tensor of that name
CopyPretrained ==
    /\ gpt_pc \in {"ready", "copying"}
    /\ optimizer_groups = <<>>
    /\ param' = [param EXCEPT ![StateDict(module)[copy_i]] = Pretrained]
    /\ copy_i' = copy_i + 1
    /\ gpt_pc' = IF copy_i < Len(StateDict(module)) THEN "copying" ELSE "loaded"
    /\ UNCHANGED <<envVars, loaderVars, trainVars, lrVars, n_layer, module, init_i,
                   optimizer_groups>>

\* line 348: configure_optimizers
ConfigureOptimizers ==
    /\ gpt_pc \in {"ready", "loaded"}
    /\ optimizer_groups = <<>>
    /\ optimizer_groups' = optim_groups(module)
    /\ UNCHANGED <<envVars, loaderVars, trainVars, lrVars, n_layer, module, param,
                   gpt_pc, init_i, copy_i>>

\* line 480: optimizer.step() writes every parameter it was given
OptimizerUpdate ==
    /\ optimizer_groups # <<>>
    /\ param' = [id \in DOMAIN param |->
          IF \E g \in 1 .. 2 : \E j \in 1 .. Len(optimizer_groups[g]) :
                optimizer_groups[g][j] = id
          THEN Updated ELSE param[id]]
    /\ gpt_pc' = "trained"
    /\ UNCHANGED <<envVars, loaderVars, trainVars, lrVars, n_layer, module, init_i,
                   copy_i, optimizer_groups>>

GptIdle ==
    /\ n_layer = 1
    /\ module = <<>>
    /\ param = <<>>
    /\ gpt_pc = "new"
    /\ init_i = 0
    /\ copy_i = 1
    /\ optimizer_groups = <<>>

\* ------------------------------------------------------- the training script
last_step(r) == step[r] = max_steps - 1

hella_due_master(r) ==
    (step[r] % eval_every = 0 \/ last_step(r)) /\ ~use_compile /\ r = 0

sample_due_from_zero(r) ==
    (step[r] % eval_every = 0 \/ last_step(r)) /\ ~use_compile

\* the conditions of lines 365, 390 and 423
val_due(r) == step[r] % eval_every = 0 \/ last_step(r)
hella_due(r) == (step[r] % eval_every = 0 \/ last_step(r)) /\ ~use_compile
sample_due(r) ==
    ((step[r] > 0 /\ step[r] % eval_every = 0) \/ last_step(r)) /\ ~use_compile

\* where a process goes on: the tests of lines 365, 390 and 423
AfterHella(r) == IF sample_due(r) THEN "sample" ELSE "train"
AfterVal(r) == IF hella_due(r) THEN "hella" ELSE AfterHella(r)
AfterLoopHead(r) == IF val_due(r) THEN "val" ELSE AfterVal(r)

\* tensor.numel() of a batch
numel(b) == IF Len(b) = 0 THEN 0 ELSE Len(b) * Len(b[1])

Logged(r, events) == log' = [log EXCEPT ![r] = @ \o events]

accum_steps_one_rank == total_batch_size \div (B * T)

\* line 308
accum_steps == total_batch_size \div (B * T * ddp_world_size)

\* line 307, the assertion holding, and line 308
AssertPasses(r) ==
    /\ pc[r] = "assert"
    /\ total_batch_size % (B * T * ddp_world_size) = 0
    /\ grad_accum_steps' = [grad_accum_steps EXCEPT ![r] = accum_steps]
    /\ pc' = [pc EXCEPT ![r] = "loaders"]
    /\ UNCHANGED <<envVars, loaderVars, aloneVars, step, micro_step, val_i, ex_i,
                   num_total, num_correct_norm, model, grad, lr, log>>

\* line 307, the assertion failing: the process ends there
AssertFails(r) ==
    /\ pc[r] = "assert"
    /\ total_batch_size % (B * T * ddp_world_size) # 0
    /\ pc' = [pc EXCEPT ![r] = "assert_failed"]
    /\ crashed' = [crashed EXCEPT ![r] = TRUE]
    /\ UNCHANGED <<envVars, aloneVars, train_loader, val_loader, x, y, calls,
                   grad_accum_steps, step, micro_step, val_i, ex_i, num_total,
                   num_correct_norm, model, grad, lr, log>>

\* lines 314-315
MakeLoaders(r) ==
    /\ pc[r] = "loaders"
    /\ train_loader' = [train_loader EXCEPT
          ![r] = DataLoaderLite(B, T, r, ddp_world_size, "train")]
    /\ val_loader' = [val_loader EXCEPT
          ![r] = DataLoaderLite(B, T, r, ddp_world_size, "val")]
    /\ pc' = [pc EXCEPT ![r] = "model"]
    /\ UNCHANGED <<envVars, aloneVars, x, y, calls, crashed, grad_accum_steps, step,
                   micro_step, val_i, ex_i, num_total, num_correct_norm, model,
                   grad, lr, log>>

\* lines 321-328: a new module is in training mode, and DDP synchronises
\* every backward pass until told otherwise
MakeModel(r) ==
    /\ pc[r] = "model"
    /\ model' = [model EXCEPT ![r] =
          [created |-> TRUE, training |-> TRUE, require_backward_grad_sync |-> ddp]]
    /\ pc' = [pc EXCEPT ![r] = "optimizer"]
    /\ UNCHANGED <<envVars, loaderVars, aloneVars, grad_accum_steps, step, micro_step,
                   val_i, ex_i, num_total, num_correct_norm, grad, lr, log>>

\* line 348: learning_rate=6e-4
MakeOptimizer(r) ==
    /\ pc[r] = "optimizer"
    /\ lr' = [lr EXCEPT ![r] = max_lr]
    /\ pc' = [pc EXCEPT ![r] = "loop"]
    /\ UNCHANGED <<envVars, loaderVars, aloneVars, grad_accum_steps, step, micro_step,
                   val_i, ex_i, num_total, num_correct_norm, model, grad, log>>

\* lines 360-362: the loop goes on
ForStep(r) ==
    /\ pc[r] = "loop"
    /\ step[r] < max_steps
    /\ log' = [log EXCEPT ![r] = <<>>]
    /\ pc' = [pc EXCEPT ![r] = AfterLoopHead(r)]
    /\ UNCHANGED <<envVars, loaderVars, aloneVars, grad_accum_steps, step, micro_step,
                   val_i, ex_i, num_total, num_correct_norm, model, grad, lr>>

\* lines 360, 492-496: the loop is over
ForExit(r) ==
    /\ pc[r] = "loop"
    /\ step[r] = max_steps
    /\ Logged(r, IF ddp THEN << <<"destroy_process_group", 0>> >> ELSE <<>>)
    /\ pc' = [pc EXCEPT ![r] = "done"]
    /\ UNCHANGED <<envVars, loaderVars, aloneVars, grad_accum_steps, step, micro_step,
                   val_i, ex_i, num_total, num_correct_norm, model, grad, lr>>

\* lines 366-371
ValBegin(r) ==
    /\ pc[r] = "val"
    /\ model' = [model EXCEPT ![r].training = FALSE]
    /\ val_loader' = [val_loader EXCEPT ![r] = reset(@)]
    /\ val_i' = [val_i EXCEPT ![r] = 0]
    /\ pc' = [pc EXCEPT ![r] = "val_batch"]
    /\ UNCHANGED <<envVars, aloneVars, train_loader, x, y, calls, crashed,
                   grad_accum_steps, step, micro_step, ex_i, num_total,
                   num_correct_norm, grad, lr, log>>

\* lines 373-380, one iteration
ValBatch(r) ==
    /\ pc[r] = "val_batch"
    /\ next_batch_ok(val_loader[r])
    /\ x' = [x EXCEPT ![r] = next_batch_x(val_loader[r])]
    /\ y' = [y EXCEPT ![r] = next_batch_y(val_loader[r])]
    /\ val_loader' = [val_loader EXCEPT ![r] = next_batch_self(@)]
    /\ val_i' = [val_i EXCEPT ![r] = @ + 1]
    /\ pc' = [pc EXCEPT ![r] =
          IF val_i[r] + 1 < val_loss_steps THEN "val_batch" ELSE "val_reduce"]
    /\ UNCHANGED <<envVars, aloneVars, train_loader, calls, crashed, grad_accum_steps,
                   step, micro_step, ex_i, num_total, num_correct_norm, model,
                   grad, lr, log>>

\* lines 382-388 without DDP
ValDone(r) ==
    /\ pc[r] = "val_reduce"
    /\ ~ddp
    /\ Logged(r, << <<"val", 0>> >>)
    /\ pc' = [pc EXCEPT ![r] = AfterVal(r)]
    /\ UNCHANGED <<envVars, loaderVars, aloneVars, grad_accum_steps, step, micro_step,
                   val_i, ex_i, num_total, num_correct_norm, model, grad, lr>>

\* lines 391-392
HellaBegin(r) ==
    /\ pc[r] = "hella"
    /\ num_correct_norm' = [num_correct_norm EXCEPT ![r] = 0]
    /\ num_total' = [num_total EXCEPT ![r] = 0]
    /\ ex_i' = [ex_i EXCEPT ![r] = 0]
    /\ pc' = [pc EXCEPT ![r] =
          IF nexamples > 0 THEN "hella_ex" ELSE "hella_reduce_total"]
    /\ UNCHANGED <<envVars, loaderVars, aloneVars, grad_accum_steps, step, micro_step,
                   val_i, model, grad, lr, log>>

\* where the loop of line 394 goes after example number i
AfterExample(i) == IF i + 1 < nexamples THEN "hella_ex" ELSE "hella_reduce_total"

skipped_never(i, r) == FALSE

\* line 395: example number i is left to another rank
skipped(i, r) == i % ddp_world_size # r

\* lines 394-396: an example of another rank
HellaSkip(r) ==
    /\ pc[r] = "hella_ex"
    /\ skipped(ex_i[r], r)
    /\ ex_i' = [ex_i EXCEPT ![r] = @ + 1]
    /\ pc' = [pc EXCEPT ![r] = AfterExample(ex_i[r])]
    /\ UNCHANGED <<envVars, loaderVars, aloneVars, grad_accum_steps, step, micro_step,
                   val_i, num_total, num_correct_norm, model, grad, lr, log>>

\* lines 394-407: an example of this rank; the model's answer is right or not
HellaScore(r) ==
    /\ pc[r] = "hella_ex"
    /\ ~skipped(ex_i[r], r)
    /\ \E right \in {0, 1} :
          /\ num_correct_norm' = [num_correct_norm EXCEPT ![r] = @ + right]
          /\ Logged(r, << <<IF right = 1 THEN "right" ELSE "wrong", ex_i[r]>> >>)
    /\ num_total' = [num_total EXCEPT ![r] = @ + 1]
    /\ ex_i' = [ex_i EXCEPT ![r] = @ + 1]
    /\ pc' = [pc EXCEPT ![r] = AfterExample(ex_i[r])]
    /\ UNCHANGED <<envVars, loaderVars, aloneVars, grad_accum_steps, step, micro_step,
                   val_i, model, grad, lr>>

\* lines 409-421 without DDP; line 417 divides by num_total
HellaDone(r) ==
    /\ pc[r] = "hella_reduce_total"
    /\ ~ddp
    /\ num_total[r] # 0
    /\ Logged(r, << <<"hella", 0>> >>)
    /\ pc' = [pc EXCEPT ![r] = AfterHella(r)]
    /\ UNCHANGED <<envVars, loaderVars, aloneVars, grad_accum_steps, step, micro_step,
                   val_i, ex_i, num_total, num_correct_norm, model, grad, lr>>

\* lines 424-448
Sample(r) ==
    /\ pc[r] = "sample"
    /\ model' = [model EXCEPT ![r].training = FALSE]
    /\ Logged(r, << <<"sample", 0>> >>)
    /\ pc' = [pc EXCEPT ![r] = "train"]
    /\ UNCHANGED <<envVars, loaderVars, aloneVars, grad_accum_steps, step, micro_step,
                   val_i, ex_i, num_total, num_correct_norm, grad, lr>>

\* lines 451-454
TrainBegin(r) ==
    /\ pc[r] = "train"
    /\ model' = [model EXCEPT ![r].training = TRUE]
    /\ grad' = [grad EXCEPT ![r] = [accum |-> 0, synced |-> FALSE, clipped |-> FALSE]]
    /\ micro_step' = [micro_step EXCEPT ![r] = 0]
    /\ Logged(r, << <<"zero_grad", 0>> >>)
    /\ pc' = [pc EXCEPT ![r] =
          IF 0 < grad_accum_steps[r] THEN "micro_fwd" ELSE "loss_reduce"]
    /\ UNCHANGED <<envVars, loaderVars, aloneVars, grad_accum_steps, step, val_i, ex_i,
                   num_total, num_correct_norm, lr>>

sync_always(r) == TRUE

\* the value line 469 gives require_backward_grad_sync
sync_on_last(r) == micro_step[r] = grad_accum_steps[r] - 1

\* lines 455-469
MicroForward(r) ==
    /\ pc[r] = "micro_fwd"
    /\ next_batch_ok(train_loader[r])
    /\ x' = [x EXCEPT ![r] = next_batch_x(train_loader[r])]
    /\ y' = [y EXCEPT ![r] = next_batch_y(train_loader[r])]
    /\ train_loader' = [train_loader EXCEPT ![r] = next_batch_self(@)]
    /\ Logged(r, << <<"forward", numel(next_batch_x(train_loader[r]))>> >>)
    /\ model' = [model EXCEPT ![r].require_backward_grad_sync =
          IF ddp THEN sync_on_last(r) ELSE @]
    /\ pc' = [pc EXCEPT ![r] = "micro_bwd"]
    /\ UNCHANGED <<envVars, aloneVars, val_loader, calls, crashed, grad_accum_steps,
                   step, micro_step, val_i, ex_i, num_total, num_correct_norm,
                   grad, lr>>

\* where the loop of line 454 goes after a backward pass
AfterMicro(r) ==
    IF micro_step[r] + 1 < grad_accum_steps[r] THEN "micro_fwd" ELSE "loss_reduce"

\* line 470, a backward pass that synchronises nothing
Backward(r) ==
    /\ pc[r] = "micro_bwd"
    /\ ~model[r].require_backward_grad_sync
    /\ grad' = [grad EXCEPT ![r].accum = @ + 1]
    /\ Logged(r, << <<"backward", 0>> >>)
    /\ micro_step' = [micro_step EXCEPT ![r] = @ + 1]
    /\ pc' = [pc EXCEPT ![r] = AfterMicro(r)]
    /\ UNCHANGED <<envVars, loaderVars, aloneVars, grad_accum_steps, step, val_i, ex_i,
                   num_total, num_correct_norm, model, lr>>

\* lines 471-472 without DDP
LossDone(r) ==
    /\ pc[r] = "loss_reduce"
    /\ ~ddp
    /\ pc' = [pc EXCEPT ![r] = "clip"]
    /\ UNCHANGED <<envVars, loaderVars, aloneVars, grad_accum_steps, step, micro_step,
                   val_i, ex_i, num_total, num_correct_norm, model, grad, lr, log>>

\* line 474
ClipGrad(r) ==
    /\ pc[r] = "clip"
    /\ grad' = [grad EXCEPT ![r].clipped = TRUE]
    /\ Logged(r, << <<"clip_grad_norm", 0>> >>)
    /\ pc' = [pc EXCEPT ![r] = "set_lr"]
    /\ UNCHANGED <<envVars, loaderVars, aloneVars, grad_accum_steps, step, micro_step,
                   val_i, ex_i, num_total, num_correct_norm, model, lr>>

\* lines 476-478
SetLr(r) ==
    /\ pc[r] = "set_lr"
    /\ ~get_lr_raises(step[r])
    /\ lr' = [lr EXCEPT ![r] = get_lr(step[r])]
    /\ Logged(r, << <<"set_lr", 0>> >>)
    /\ pc' = [pc EXCEPT ![r] = "opt_step"]
    /\ UNCHANGED <<envVars, loaderVars, aloneVars, grad_accum_steps, step, micro_step,
                   val_i, ex_i, num_total, num_correct_norm, model, grad>>

\* lines 480-490 and the loop's increment
OptimizerStep(r) ==
    /\ pc[r] = "opt_step"
    /\ Logged(r, << <<"optimizer_step", 0>> >>)
    /\ step' = [step EXCEPT ![r] = @ + 1]
    /\ pc' = [pc EXCEPT ![r] = "loop"]
    /\ UNCHANGED <<envVars, loaderVars, aloneVars, grad_accum_steps, micro_step,
                   val_i, ex_i, num_total, num_correct_norm, model, grad, lr>>

\* ----------------------------------------------------------- collectives
\* A collective completes when every rank has issued it: the ranks take the
\* step together. Ranks waiting in different collectives wait forever.
AllAt(label) == \A r \in Ranks : pc[r] = label

Sum(f, S) ==
    LET RECURSIVE go(_)
        go(U) == IF U = {} THEN 0
                 ELSE LET u == CHOOSE u \in U : TRUE IN f[u] + go(U \ {u})
    IN  go(S)

\* line 383, then lines 385-388
AllReduceValLoss ==
    /\ ddp
    /\ AllAt("val_reduce")
    /\ log' = [r \in Ranks |-> log[r] \o << <<"all_reduce_val_loss", 0>>, <<"val", 0>> >>]
    /\ pc' = [r \in Ranks |-> AfterVal(r)]
    /\ UNCHANGED <<envVars, loaderVars, aloneVars, grad_accum_steps, step, micro_step,
                   val_i, ex_i, num_total, num_correct_norm, model, grad, lr>>

\* lines 410, 412
AllReduceNumTotal ==
    /\ ddp
    /\ AllAt("hella_reduce_total")
    /\ num_total' = [r \in Ranks |-> Sum(num_total, Ranks)]
    /\ log' = [r \in Ranks |-> log[r] \o << <<"all_reduce_num_total", 0>> >>]
    /\ pc' = [r \in Ranks |-> "hella_reduce_correct"]
    /\ UNCHANGED <<envVars, loaderVars, aloneVars, grad_accum_steps, step, micro_step,
                   val_i, ex_i, num_correct_norm, model, grad, lr>>

\* lines 411, 413, then lines 414-421; line 417 divides by num_total
AllReduceNumCorrect ==
    /\ ddp
    /\ AllAt("hella_reduce_correct")
    /\ \A r \in Ranks : num_total[r] # 0
    /\ num_correct_norm' = [r \in Ranks |-> Sum(num_correct_norm, Ranks)]
    /\ log' = [r \in Ranks |->
          log[r] \o << <<"all_reduce_num_correct_norm", 0>>, <<"hella", 0>> >>]
    /\ pc' = [r \in Ranks |-> AfterHella(r)]
    /\ UNCHANGED <<envVars, loaderVars, aloneVars, grad_accum_steps, step, micro_step,
                   val_i, ex_i, num_total, model, grad, lr>>

\* line 470 under DDP with require_backward_grad_sync set: the backward
\* pass averages the gradients over the ranks
BackwardSync ==
    /\ ddp
    /\ AllAt("micro_bwd")
    /\ \A r \in Ranks : model[r].require_backward_grad_sync
    /\ grad' = [r \in Ranks |-> [grad[r] EXCEPT !.accum = @ + 1, !.synced = TRUE]]
    /\ log' = [r \in Ranks |-> log[r] \o << <<"backward", 1>>, <<"grad_sync", 0>> >>]
    /\ micro_step' = [r \in Ranks |-> micro_step[r] + 1]
    /\ pc' = [r \in Ranks |-> AfterMicro(r)]
    /\ UNCHANGED <<envVars, loaderVars, aloneVars, grad_accum_steps, step, val_i, ex_i,
                   num_total, num_correct_norm, model, lr>>

\* line 472
AllReduceLoss ==
    /\ ddp
    /\ AllAt("loss_reduce")
    /\ log' = [r \in Ranks |-> log[r] \o << <<"all_reduce_loss", 0>> >>]
    /\ pc' = [r \in Ranks |-> "clip"]
    /\ UNCHANGED <<envVars, loaderVars, aloneVars, grad_accum_steps, step, micro_step,
                   val_i, ex_i, num_total, num_correct_norm, model, grad, lr>>

Collective ==
    \/ AllReduceValLoss \/ AllReduceNumTotal \/ AllReduceNumCorrect
    \/ BackwardSync \/ AllReduceLoss

\* ------------------------------------------------- the loaders on their own
\* DataLoaderLite objects built as on line 314, one per rank, and then reset
\* and read in any order. The shard files hold any number of tokens.
FileSets ==
    UNION {[1 .. n -> 1 .. MaxShardLen] : n \in 1 .. MaxShards}

Reset(r) ==
    /\ ~crashed[r]
    /\ train_loader' = [train_loader EXCEPT ![r] = reset(@)]
    /\ calls' = [calls EXCEPT ![r] = 0]
    /\ UNCHANGED <<envVars, trainVars, aloneVars, val_loader, x, y, crashed>>

NextBatch(r) ==
    /\ ~crashed[r]
    /\ calls[r] < MaxCalls
    /\ next_batch_ok(train_loader[r])
    /\ x' = [x EXCEPT ![r] = next_batch_x(train_loader[r])]
    /\ y' = [y EXCEPT ![r] = next_batch_y(train_loader[r])]
    /\ train_loader' = [train_loader EXCEPT ![r] = next_batch_self(@)]
    /\ calls' = [calls EXCEPT ![r] = @ + 1]
    /\ UNCHANGED <<envVars, trainVars, aloneVars, val_loader, crashed>>

\* view() raises: the exception ends the process
NextBatchRaises(r) ==
    /\ ~crashed[r]
    /\ calls[r] < MaxCalls
    /\ ~next_batch_ok(train_loader[r])
    /\ crashed' = [crashed EXCEPT ![r] = TRUE]
    /\ UNCHANGED <<envVars, trainVars, aloneVars, train_loader, val_loader, x, y, calls>>

\* ------------------------------------------------------------ the program
NoModel == [created |-> FALSE, training |-> FALSE, require_backward_grad_sync |-> FALSE]
NoGrad == [accum |-> 0, synced |-> FALSE, clipped |-> FALSE]

LrIdle == it = 0 /\ lr_out = NotCalled

NoLoaders ==
    /\ train_loader = [r \in Ranks |-> NoLoader]
    /\ val_loader = [r \in Ranks |-> NoLoader]

ProcessesStart ==
    /\ x = [r \in Ranks |-> NoBatch]
    /\ y = [r \in Ranks |-> NoBatch]
    /\ calls = [r \in Ranks |-> 0]
    /\ crashed = [r \in Ranks |-> FALSE]
    /\ pc = [r \in Ranks |-> "assert"]
    /\ grad_accum_steps = [r \in Ranks |-> 0]
    /\ step = [r \in Ranks |-> 0]
    /\ micro_step = [r \in Ranks |-> 0]
    /\ val_i = [r \in Ranks |-> 0]
    /\ ex_i = [r \in Ranks |-> 0]
    /\ num_total = [r \in Ranks |-> 0]
    /\ num_correct_norm = [r \in Ranks |-> 0]
    /\ model = [r \in Ranks |-> NoModel]
    /\ grad = [r \in Ranks |-> NoGrad]
    /\ lr = [r \in Ranks |-> 0]
    /\ log = [r \in Ranks |-> <<>>]

\* The shard files of a training run are whole: each holds MaxShardLen tokens.
Init ==
    /\ ddp \in BOOLEAN
    /\ ddp_world_size \in (IF ddp THEN 1 .. MaxWorld ELSE {1})
    /\ B \in 1 .. MaxB
    /\ T \in 1 .. MaxT
    /\ total_batch_size \in 1 .. MaxTotal
    /\ files = [s \in {"train", "val"} |-> [i \in 1 .. MaxShards |-> MaxShardLen]]
    /\ nexamples \in 1 .. MaxExamples
    /\ NoLoaders
    /\ ProcessesStart
    /\ LrIdle
    /\ GptIdle

\* what one process does on its own
RankStep(r) ==
    \/ AssertPasses(r) \/ AssertFails(r)
    \/ MakeLoaders(r) \/ MakeModel(r) \/ MakeOptimizer(r)
    \/ ForStep(r) \/ ForExit(r)
    \/ ValBegin(r) \/ ValBatch(r) \/ ValDone(r)
    \/ HellaBegin(r) \/ HellaSkip(r) \/ HellaScore(r) \/ HellaDone(r)
    \/ Sample(r)
    \/ TrainBegin(r) \/ MicroForward(r) \/ Backward(r) \/ LossDone(r)
    \/ ClipGrad(r) \/ SetLr(r) \/ OptimizerStep(r)

Next ==
    \/ \E r \in Ranks : AssertPasses(r)
    \/ \E r \in Ranks : AssertFails(r)
    \/ \E r \in Ranks : MakeLoaders(r)
    \/ \E r \in Ranks : MakeModel(r)
    \/ \E r \in Ranks : MakeOptimizer(r)
    \/ \E r \in Ranks : ForStep(r)
    \/ \E r \in Ranks : ForExit(r)
    \/ \E r \in Ranks : ValBegin(r)
    \/ \E r \in Ranks : ValBatch(r)
    \/ \E r \in Ranks : ValDone(r)
    \/ \E r \in Ranks : HellaBegin(r)
    \/ \E r \in Ranks : HellaSkip(r)
    \/ \E r \in Ranks : HellaScore(r)
    \/ \E r \in Ranks : HellaDone(r)
    \/ \E r \in Ranks : Sample(r)
    \/ \E r \in Ranks : TrainBegin(r)
    \/ \E r \in Ranks : MicroForward(r)
    \/ \E r \in Ranks : Backward(r)
    \/ \E r \in Ranks : LossDone(r)
    \/ \E r \in Ranks : ClipGrad(r)
    \/ \E r \in Ranks : SetLr(r)
    \/ \E r \in Ranks : OptimizerStep(r)
    \/ AllReduceValLoss
    \/ AllReduceNumTotal
    \/ AllReduceNumCorrect
    \/ BackwardSync
    \/ AllReduceLoss

Spec == Init /\ [][Next]_vars

InitLoader ==
    /\ ddp = TRUE
    /\ ddp_world_size \in 1 .. MaxWorld
    /\ B \in 1 .. MaxB
    /\ T \in 1 .. MaxT
    /\ total_batch_size = B * T * ddp_world_size
    /\ \E fs \in FileSets : files = [s \in {"train", "val"} |-> fs]
    /\ nexamples = 1
    /\ train_loader =
          [r \in Ranks |-> DataLoaderLite(B, T, r, ddp_world_size, "train")]
    /\ val_loader = [r \in Ranks |-> NoLoader]
    /\ ProcessesStart
    /\ LrIdle
    /\ GptIdle

NextLoader ==
    \/ \E r \in Ranks : Reset(r)
    \/ \E r \in Ranks : NextBatch(r)
    \/ \E r \in Ranks : NextBatchRaises(r)

SpecLoader == InitLoader /\ [][NextLoader]_vars

\* ------------------------------------------------------ get_lr on its own
CallGetLr ==
    /\ lr_out = NotCalled
    /\ lr_out' = IF get_lr_raises(it) THEN Raised ELSE Returned(get_lr(it))
    /\ UNCHANGED <<envVars, loaderVars, trainVars, gptVars, it>>

InitLR ==
    /\ ddp = FALSE
    /\ ddp_world_size = 1
    /\ B = 1
    /\ T = 1
    /\ total_batch_size = 1
    /\ files = [s \in {"train", "val"} |-> <<MaxShardLen>>]
    /\ nexamples = 1
    /\ NoLoaders
    /\ ProcessesStart
    /\ it \in 0 .. max_steps + MaxOver
    /\ lr_out = NotCalled
    /\ GptIdle

SpecLR == InitLR /\ [][CallGetLr]_vars

\* ---------------------------------------------------- the GPT on its own
InitGPT ==
    /\ ddp = FALSE
    /\ ddp_world_size = 1
    /\ B = 1
    /\ T = 1
    /\ total_batch_size = 1
    /\ files = [s \in {"train", "val"} |-> <<MaxShardLen>>]
    /\ nexamples = 1
    /\ NoLoaders
    /\ ProcessesStart
    /\ LrIdle
    /\ n_layer \in 1 .. MaxLayer
    /\ module = <<>>
    /\ param = <<>>
    /\ gpt_pc = "new"
    /\ init_i = 0
    /\ copy_i = 1
    /\ optimizer_groups = <<>>

NextGPT ==
    \/ Construct
    \/ TieWeights
    \/ InitModule
    \/ CopyPretrained
    \/ ConfigureOptimizers
    \/ OptimizerUpdate

SpecGPT == InitGPT /\ [][NextGPT]_vars

\* every process keeps running, and a collective every rank has issued completes
FairSpec ==
    /\ Spec
    /\ \A r \in 0 .. MaxWorld : WF_vars(r \in Ranks /\ RankStep(r))
    /\ WF_vars(Collective)

\* =================================================================== claims
\* every train shard holds at least B*T*num_processes + 1 tokens
ShardsLargeEnough ==
    \A i \in 1 .. Len(files["train"]) :
        files["train"][i] >= B * T * ddp_world_size + 1

\* the B x T window of the loaded shard that starts off tokens after current_pos
Window(self, off) ==
    [b \in 1 .. self.B |->
        [t \in 1 .. self.T |->
            <<self.current_shard, self.current_pos + off + (b - 1) * self.T + (t - 1)>>]]

\* the step is a call of next_batch by rank r, returning or raising
IsCall(r) == calls'[r] = calls[r] + 1 \/ crashed'[r] # crashed[r]

\* C1: with every shard holding at least B*T*num_processes + 1 tokens, every
\* call of next_batch, after reset and after any earlier calls, returns: x is
\* the B*T tokens of the current shard from current_pos on, y the B*T tokens
\* one place further, and the window read ends within the loaded shard.
C1_FixedWindows ==
    [][ShardsLargeEnough =>
         \A r \in Ranks :
            IsCall(r) =>
               /\ ~crashed'[r]
               /\ train_loader[r].tokens =
                     load_tokens("train", train_loader[r].current_shard + 1)
               /\ x'[r] = Window(train_loader[r], 0)
               /\ y'[r] = Window(train_loader[r], 1)
               /\ numel(x'[r]) = B * T
               /\ numel(y'[r]) = B * T
               /\ train_loader[r].current_pos + B * T + 1
                     <= Len(train_loader[r].tokens)]_vars

\* a rank has moved on to the second shard and read a batch there
C1_Witness ==
    /\ ShardsLargeEnough
    /\ \E r \in Ranks :
          /\ r > 0
          /\ calls[r] >= 2
          /\ train_loader[r].current_shard = 1
          /\ train_loader[r].current_pos > B * T * r
          /\ x[r][1][1][1] = 1

\* the places a batch was read from
BatchTokens(b) == UNION {{b[i][j] : j \in 1 .. Len(b[i])} : i \in 1 .. Len(b)}

\* C2: after the same number k >= 1 of next_batch calls, the x windows of
\* two different ranks share no (shard index, token position) pair.
C2_RanksDisjoint ==
    \A r1 \in Ranks : \A r2 \in Ranks :
        (r1 # r2 /\ calls[r1] = calls[r2] /\ calls[r1] > 0)
            => BatchTokens(x[r1]) \cap BatchTokens(x[r2]) = {}

\* two ranks after their second call, reading different shards by then
C2_Witness ==
    /\ ddp_world_size >= 2
    /\ calls[0] = 2
    /\ calls[1] = 2
    /\ x[0][1][1][1] # x[1][1][1][1]
    /\ B * T > 1

\* C9: with every shard holding at least B*T*num_processes + 1 tokens, a
\* rank r that has made as many next_batch calls since reset as rank 0 is on
\* the same shard as rank 0, B*T*r tokens further on.
C9_Lockstep ==
    ShardsLargeEnough =>
        \A r \in Ranks :
            (calls[r] = calls[0] /\ ~crashed[r] /\ ~crashed[0]) =>
                /\ train_loader[r].current_shard = train_loader[0].current_shard
                /\ train_loader[r].current_pos =
                      train_loader[0].current_pos + B * T * r

\* ---- what a process logged in a training step
Kinds(l) == [i \in 1 .. Len(l) |-> l[i][1]]
Only(l, K) == SelectSeq(l, LAMBDA e : e[1] \in K)
Count(l, k) == Len(Only(l, {k}))
\* the place of the first event of kind k, 0 when there is none
First(l, k) ==
    IF \E i \in 1 .. Len(l) : l[i][1] = k
    THEN CHOOSE i \in 1 .. Len(l) : l[i][1] = k /\ \A j \in 1 .. i - 1 : l[j][1] # k
    ELSE 0
\* the tokens of the batches the forward passes of a step were given
RECURSIVE Tokens(_)
Tokens(l) ==
    IF l = <<>> THEN 0
    ELSE (IF Head(l)[1] = "forward" THEN Head(l)[2] ELSE 0) + Tokens(Tail(l))
RECURSIVE Repeat(_, _)
Repeat(l, n) == IF n <= 0 THEN <<>> ELSE l \o Repeat(l, n - 1)

\* the process has just finished training step step[r] - 1: log[r] is that step
StepDone(r) == pc[r] = "loop" /\ step[r] > 0

Divisible == total_batch_size % (B * T * ddp_world_size) = 0

\* C3: with total_batch_size divisible by B*T*ddp_world_size, a training
\* step is one zero_grad, then grad_accum_steps forward/backward pairs, then
\* one optimizer.step, and the batches of all ranks in the step hold
\* total_batch_size tokens; without the divisibility a process never gets
\* past the assertion, and creates no loader and no model.
C3_AccumulatesConfiguredBatch ==
    /\ \A r \in Ranks :
          /\ ~Divisible =>
                /\ pc[r] \in {"assert", "assert_failed"}
                /\ train_loader[r] = NoLoader
                /\ val_loader[r] = NoLoader
                /\ ~model[r].created
          /\ StepDone(r) =>
                /\ Divisible
                /\ Kinds(Only(log[r], {"zero_grad", "forward", "backward", "optimizer_step"}))
                      = <<"zero_grad">>
                           \o Repeat(<<"forward", "backward">>, grad_accum_steps[r])
                           \o <<"optimizer_step">>
                /\ Tokens(log[r]) = grad_accum_steps[r] * B * T
                /\ grad[r].accum = grad_accum_steps[r]
    /\ (\A r \in Ranks : StepDone(r) /\ step[r] = step[0]) =>
          Sum([r \in Ranks |-> Tokens(log[r])], Ranks) = total_batch_size

\* two ranks have both finished their second step of two micro-batches each
C3_Witness ==
    /\ ddp_world_size = 2
    /\ \A r \in Ranks : StepDone(r) /\ step[r] = 2 /\ grad_accum_steps[r] = 2

\* C4: under DDP, require_backward_grad_sync is false at every backward pass
\* but the last of a step and true at the last, the gradients are
\* synchronised once per step, in that last backward pass, and after it come
\* gradient clipping, the setting of the learning rate and optimizer.step,
\* each once and in this order.
C4_SyncOncePerStep ==
    ddp =>
        \A r \in Ranks :
            /\ pc[r] = "micro_bwd" =>
                  (model[r].require_backward_grad_sync
                      <=> micro_step[r] = grad_accum_steps[r] - 1)
            /\ StepDone(r) =>
                  LET l == log[r]
                      bw == Only(l, {"backward"})
                  IN  /\ Len(bw) = grad_accum_steps[r]
                      /\ \A i \in 1 .. Len(bw) :
                            bw[i][2] = IF i = Len(bw) THEN 1 ELSE 0
                      /\ \A k \in {"grad_sync", "clip_grad_norm", "set_lr", "optimizer_step"} :
                            Count(l, k) = 1
                      /\ l[First(l, "grad_sync") - 1] = <<"backward", 1>>
                      /\ First(l, "grad_sync") < First(l, "clip_grad_norm")
                      /\ First(l, "clip_grad_norm") < First(l, "set_lr")
                      /\ First(l, "set_lr") < First(l, "optimizer_step")
                      /\ grad[r].synced /\ grad[r].clipped

\* a DDP rank of two has finished a step of two micro-batches
C4_Witness ==
    /\ ddp
    /\ ddp_world_size = 2
    /\ StepDone(1)
    /\ grad_accum_steps[1] = 2
    /\ Count(log[1], "backward") = 2

EvalKinds == {"val", "hella", "sample"}

\* the evaluations the claim gives step s
ExpectedEvals(s) ==
    (IF s % 250 = 0 \/ s = max_steps - 1 THEN <<"val", "hella">> ELSE <<>>)
        \o (IF (s > 0 /\ s % 250 = 0) \/ s = max_steps - 1 THEN <<"sample">> ELSE <<>>)

CollectiveKinds ==
    {"all_reduce_val_loss", "all_reduce_num_total", "all_reduce_num_correct_norm",
     "grad_sync", "all_reduce_loss", "destroy_process_group"}

\* the collectives the claim gives step s
ExpectedCollectives(s) ==
    (IF s % 250 = 0 \/ s = max_steps - 1
     THEN <<"all_reduce_val_loss", "all_reduce_num_total", "all_reduce_num_correct_norm">>
     ELSE <<>>)
        \o <<"grad_sync", "all_reduce_loss">>

\* the process has issued a collective and waits for the other ranks
Waiting(r) ==
    /\ ddp
    /\ \/ pc[r] \in {"val_reduce", "hella_reduce_total", "hella_reduce_correct",
                     "loss_reduce"}
       \/ pc[r] = "micro_bwd" /\ model[r].require_backward_grad_sync

CollectivesMatch ==
    ddp =>
        \A r \in Ranks :
            /\ StepDone(r) =>
                  Kinds(Only(log[r], CollectiveKinds)) = ExpectedCollectives(step[r] - 1)
            /\ pc[r] = "done" =>
                  Kinds(Only(log[r], CollectiveKinds))
                      = ExpectedCollectives(max_steps - 1) \o <<"destroy_process_group">>
            /\ Waiting(r) =>
                  \A q \in Ranks :
                      /\ pc[q] # "done"
                      /\ Waiting(q) =>
                            /\ pc[q] = pc[r]
                            /\ step[q] = step[r]
                            /\ micro_step[q] = micro_step[r]

\* C10: in a DDP run every rank issues the same collectives in every step
\* (those of validation and of the multiple-choice evaluation when the step
\* evaluates, one gradient synchronisation, the training-loss all_reduce,
\* and destroy_process_group at the end), two waiting ranks always wait in
\* the same collective, and every rank reaches the end of the script.
C10_CollectivesMatchAndEnd ==
    /\ []CollectivesMatch
    /\ (ddp /\ Divisible) => <>(\A r \in Ranks : pc[r] = "done")

\* both ranks of a DDP run have left the loop
C10_Witness ==
    /\ ddp
    /\ ddp_world_size = 2
    /\ \A r \in Ranks : pc[r] = "done" /\ step[r] = max_steps

Occurrences(ids, id) == Cardinality({j \in 1 .. Len(ids) : ids[j] = id})

\* C7: once GPT.__init__ has tied them, and through weight initialisation,
\* from_pretrained's copies and optimizer updates, transformer.wte.weight
\* and lm_head.weight are the same parameter, holding what was last written
\* through either name, and the optimizer is given that parameter once.
C7_WeightsTied ==
    gpt_pc \notin {"new", "built"} =>
        LET wte == module[Where(module, "transformer.wte")]
            head == module[Where(module, "lm_head")]
        IN  /\ wte.weight = head.weight
            /\ param[wte.weight] = param[head.weight]
            /\ gpt_pc \in {"loaded", "trained"} =>
                  param[wte.weight].kind \in {"pretrained", "updated"}
            /\ optimizer_groups # <<>> =>
                  /\ Occurrences(optimizer_groups[1] \o optimizer_groups[2], head.weight) = 1
                  /\ gpt_pc = "trained" => param[wte.weight] = Updated

\* a two-layer model was built and the optimizer has updated the shared weight
C7_Witness ==
    /\ n_layer = 2
    /\ gpt_pc = "trained"
    /\ module[1].weight = module[Len(module)].weight
    /\ param[module[1].weight] = Updated

\* C8: after initialisation every Linear marked GPT_SCALE_INIT holds a
\* normal of standard deviation 0.02 * (2 * n_layer) ** -0.5, every other
\* Linear and every Embedding a normal of standard deviation 0.02, and every
\* Linear bias is zero.
C8_ResidualProjectionsScaled ==
    gpt_pc = "ready" =>
        \A k \in 1 .. Len(module) :
            LET m == module[k] IN
            /\ m.type = "Linear" =>
                  /\ param[m.weight] =
                        Normal(2, IF "GPT_SCALE_INIT" \in m.attrs THEN 2 * n_layer ELSE 1)
                  /\ m.bias # 0 => param[m.bias] = Zeros
            /\ m.type = "Embedding" => param[m.weight] = Normal(2, 1)

\* ---- the examples a process scored in its current evaluation
Scores(l) == Only(l, {"right", "wrong"})
ScoredExamples(l) == [k \in 1 .. Len(Scores(l)) |-> Scores(l)[k][2]]
\* the examples of rank r below number n, in the order of the file
RECURSIVE ExamplesOf(_, _)
ExamplesOf(r, n) ==
    IF n <= 0 THEN <<>>
    ELSE ExamplesOf(r, n - 1) \o
         (IF (n - 1) % ddp_world_size = r THEN <<n - 1>> ELSE <<>>)
\* every process has finished the evaluation of its current step
EvaluationDone == \A r \in Ranks : Count(log[r], "hella") = 1
\* the examples the evaluation answered correctly, over all processes
CorrectExamples ==
    {i \in 0 .. nexamples - 1 : \E r \in Ranks :
        \E k \in 1 .. Len(log[r]) : log[r][k] = <<"right", i>>}

\* C11: in each evaluation example i is scored by the rank with
\* i % ddp_world_size = ddp_rank, once, and by no other rank; the counters of
\* a rank count from zero the examples it scored in this evaluation and the
\* ones among them it answered correctly; and once the evaluation is done on
\* every rank, num_total is the number of examples and num_correct_norm the
\* number of correctly answered examples on each rank, with
\* 0 <= num_correct_norm <= num_total.
C11_ExamplesPartitioned ==
    /\ \A r \in Ranks :
          /\ pc[r] = "hella" => Scores(log[r]) = <<>>
          /\ pc[r] = "hella_ex" =>
                /\ ScoredExamples(log[r]) = ExamplesOf(r, ex_i[r])
                /\ num_total[r] = Len(Scores(log[r]))
                /\ num_correct_norm[r] = Count(log[r], "right")
          /\ pc[r] = "hella_reduce_total" =>
                /\ ScoredExamples(log[r]) = ExamplesOf(r, nexamples)
                /\ num_total[r] = Len(Scores(log[r]))
                /\ num_correct_norm[r] = Count(log[r], "right")
    /\ EvaluationDone =>
          /\ \A i \in 0 .. nexamples - 1 : \A r \in Ranks :
                Len(SelectSeq(log[r], LAMBDA e : e \in {<<"right", i>>, <<"wrong", i>>})) =
                    IF i % ddp_world_size = r THEN 1 ELSE 0
          /\ \A r \in Ranks :
                /\ num_total[r] = nexamples
                /\ num_correct_norm[r] = Cardinality(CorrectExamples)
                /\ 0 <= num_correct_norm[r]
                /\ num_correct_norm[r] <= num_total[r]

\* two ranks have finished the second evaluation of a run over two examples:
\* rank 0 answered example 0 wrongly, rank 1 answered example 1 correctly
C11_Witness ==
    /\ ddp
    /\ ddp_world_size = 2
    /\ nexamples = 2
    /\ EvaluationDone
    /\ \A r \in Ranks : step[r] = eval_every
    /\ Scores(log[0]) = << <<"wrong", 0>> >>
    /\ Scores(log[1]) = << <<"right", 1>> >>
    /\ \A r \in Ranks : num_total[r] = 2 /\ num_correct_norm[r] = 1

====
